---- MODULE Spec2Model ----
(***************************************************************************)
(* PickleDB (src/pickledb.py): a file-backed key-value store.  The model   *)
(* holds the files the store owns (the storage file, its ".tmp" sibling,   *)
(* the ".key" file and the backup directory), the clock that names         *)
(* backups, and the one store object of the running process.  save() and   *)
(* restore() are taken one filesystem call at a time, so that a process    *)
(* crash or an I/O error can fall between any two of them; every other     *)
(* method is one step.  The handlers of the REST facade (src/api.py) run   *)
(* on worker threads, each going through its own save().                   *)
(*                                                                         *)
(* Python values are written as strings: "None" is None, "True"/"False"    *)
(* the booleans, "int1" the integer 1.  A dict is a function whose domain  *)
(* is its key set.  The key "#1" stands for the integer key 1, which is    *)
(* not a str; str(1) is the str key "1".                                   *)
(***************************************************************************)
EXTENDS Integers, FiniteSets, Sequences, TLC

\* ---------------------------------------------------------------- bounds
\* Seconds the clock may advance (backup names have second resolution).
MaxTime == 2
\* Fernet keys the key generator may hand out.
MaxKeys == 2
\* Seconds the clock may advance while rotation is followed.
RotationTime == 6
\* save(backup=True) calls that are counted while rotation is followed.
MaxSaves == 7

\* ---------------------------------------------------------------- values
None == "None"
StrKeys == {"k", "1"}
IntKeys == {"#1"}
RawKeys == StrKeys \cup IntKeys
Vals == {None, "int1"}
EmptyDict == [k \in {} |-> None]

\* str(key), as set/get/remove apply it
Str(k) == IF k = "#1" THEN "1" ELSE k

IsStr(k) == k \in StrKeys

\* dict.update / self.db[key] = value
DictSet(d, k, v) == [x \in (DOMAIN d) \cup {k} |-> IF x = k THEN v ELSE d[x]]

\* del self.db[key] / dict.pop(key, None)
DictDel(d, k) == [x \in (DOMAIN d) \ {k} |-> d[x]]

\* dict.get(key): None when the key is absent
DictGet(d, k) == IF k \in DOMAIN d THEN d[k] ELSE None

\* ----------------------------------------------------------------- codec
\* JSON literal of a Python value, and back
Lit(v) == IF v = None THEN "null" ELSE "1"

UnLit(l) == IF l = "null" THEN None ELSE "int1"

\* orjson.dumps(self.db): a dict key that is not a str raises TypeError
OrjsonDumps(d) ==
  IF \A k \in DOMAIN d : IsStr(k)
    THEN [ok |-> TRUE, text |-> {<<k, Lit(d[k])>> : k \in DOMAIN d}]
    ELSE [ok |-> FALSE, text |-> {}]

\* File contents.  kind: "nofile" (no such file), "empty" (zero length),
\* "plain" (a complete JSON text), "token" (a complete Fernet token of a
\* JSON text under key), "junk" (any other non-empty bytes: a truncated
\* write, foreign data); marker: the bytes start with b"gAAAA".
NoFile == [kind |-> "nofile", marker |-> FALSE, key |-> 0, text |-> {}]
EmptyFile == [kind |-> "empty", marker |-> FALSE, key |-> 0, text |-> {}]
Junk(m) == [kind |-> "junk", marker |-> m, key |-> 0, text |-> {}]
PlainBytes(t) == [kind |-> "plain", marker |-> FALSE, key |-> 0, text |-> t]
Token(k, t) == [kind |-> "token", marker |-> TRUE, key |-> k, text |-> t]

\* self._encrypt(text): Fernet token under the store's key, or the text's bytes
Encrypt(enc, ky, t) == IF enc THEN Token(ky, t) ELSE PlainBytes(t)

\* self._encrypt(orjson.dumps(self.db).decode())
Encode(enc, ky, d) ==
  LET j == OrjsonDumps(d)
  IN  IF j.ok THEN [ok |-> TRUE, bytes |-> Encrypt(enc, ky, j.text)]
               ELSE [ok |-> FALSE, bytes |-> NoFile]

\* A strict non-empty prefix of bytes b, as a write cut short leaves it
Truncated(b) == Junk(b.marker)

\* self._decrypt(data): the JSON text, or ok = FALSE when Fernet rejects the
\* token (InvalidToken); without encryption the bytes are only decoded to a
\* str, which is a JSON text only for "plain" bytes.
Decrypt(enc, ky, data) ==
  IF enc
    THEN IF data.kind = "token" /\ data.key = ky
           THEN [ok |-> TRUE, json |-> TRUE, text |-> data.text]
           ELSE [ok |-> FALSE, json |-> FALSE, text |-> {}]
    ELSE IF data.kind = "plain"
           THEN [ok |-> TRUE, json |-> TRUE, text |-> data.text]
           ELSE [ok |-> TRUE, json |-> FALSE, text |-> {}]

\* orjson.loads(str): JSONDecodeError unless the str is a JSON text
OrjsonLoads(s) ==
  IF s.ok /\ s.json
    THEN [ok |-> TRUE,
          map |-> [k \in {p[1] : p \in s.text} |->
                     UnLit((CHOOSE p \in s.text : p[1] = k)[2])]]
    ELSE [ok |-> FALSE, map |-> EmptyDict]

\* orjson.loads(self._decrypt(data))
Decode(enc, ky, data) == OrjsonLoads(Decrypt(enc, ky, data))

\* ----------------------------------------------------------------- state
VARIABLES
  primary,     \* bytes of the storage file self.location
  tmp,         \* bytes of self.location + ".tmp"
  keyFile,     \* key held by self.location + ".key"; 0: no such file
  backups,     \* backup directory: timestamp |-> bytes of backup_<timestamp>.json
  now,         \* the clock, in seconds
  keysMade,    \* keys Fernet.generate_key() has handed out
  alive,       \* a store object exists in the running process
  encryption,  \* self.encryption
  key,         \* self.key
  db,          \* self.db
  loaded,      \* self.loaded
  pc,          \* where the call in progress stands; "idle" between calls
  frame,       \* arguments and locals of the call in progress
  last,        \* the last call that returned, with what it returned
  committed,   \* history: the map of the last save that replaced the storage file
  snap,        \* history: timestamp |-> the map a backup was written from
  saves,       \* history: the save(backup=True) calls that returned True: how
               \* many, the retention limits they were given, the backups they named
  workers      \* the requests the facade's worker threads are serving: where
               \* each stands in its handler and in the save() it calls

vars == <<primary, tmp, keyFile, backups, now, keysMade, alive, encryption, key,
          db, loaded, pc, frame, last, committed, snap, saves, workers>>

files == <<primary, tmp, keyFile, backups>>
store == <<alive, encryption, key, db, loaded>>
history == <<committed, snap, saves>>

\* the worker threads that run the facade's handlers
Threads == {1, 2}

\* A worker between two requests.  pc: "called" (the handler's set or remove
\* has returned), "opened", "written", "replaced" (inside save()); req: the
\* handler; fd: the name its open file now goes by ("tmp", "primary", or
\* "gone" once that file is unlinked); wrote: the name the file it wrote into
\* went by; alone: no other request was served while this one was.
NoWorker ==
  [pc |-> "idle", req |-> "", fd |-> "none", wrote |-> "none", alone |-> TRUE]

NoFrame == [backup |-> FALSE, max |-> 0, caller |-> "", file |-> 0, old |-> NoFile]
\* What a call returned.  key, val: its arguments; ret: the value returned
\* ("raise": it raised); keys: the keys of a returned list or dict; file: the
\* backup named; stage: where a save ended; inner: what the save inside a
\* restore returned; events: what the call handed to logging.info, in order.
Ret(op, k, v, r) ==
  [op |-> op, key |-> k, val |-> v, ret |-> r, keys |-> {}, file |-> -1,
   stage |-> "", inner |-> "", events |-> <<>>]
RetKeys(op, k, r, ks) == [Ret(op, k, "", r) EXCEPT !.keys = ks]

\* self._log(action, key, value): the one record logging.info receives; a
\* value of None is left out of the message
Log(action, k, v) == <<action, k, v>>

\* a call returned r after logging events
Logged(r, events) == [r EXCEPT !.events = events]

\* committed.mode: "none" (no save yet), "plain"/"enc" (how the last save
\* wrote it), "foreign" (the file was written from outside since)
NoCommit == [mode |-> "none", key |-> 0, map |-> EmptyDict]

Init ==
  /\ primary = NoFile
  /\ tmp = NoFile
  /\ keyFile = 0
  /\ backups = EmptyDict
  /\ now = 0
  /\ keysMade = 0
  /\ alive = FALSE
  /\ encryption = FALSE
  /\ key = 0
  /\ db = EmptyDict
  /\ loaded = FALSE
  /\ pc = "idle"
  /\ frame = NoFrame
  /\ last = Ret("", "", "", "")
  /\ committed = NoCommit
  /\ snap = EmptyDict
  /\ saves = [n |-> 0, limits |-> {}, names |-> {}]
  /\ workers = [t \in Threads |-> NoWorker]

\* ---------------------------------------------------------- construction
\* os.path.exists(path)
Exists(f) == f.kind # "nofile"

\* _setup_encryption without the check of line 61: a new key is generated
\* although the database exists
SetupEncryptionNoCheck ==
  IF keyFile # 0
    THEN [raised |-> FALSE, key |-> keyFile, keyFile |-> keyFile, made |-> keysMade]
    ELSE [raised |-> FALSE, key |-> keysMade + 1, keyFile |-> keysMade + 1,
          made |-> keysMade + 1]

\* _setup_encryption: the key the store ends with and the key file it leaves;
\* raised: ValueError, the key file is missing for an existing database.
SetupEncryption ==
  IF keyFile # 0
    THEN [raised |-> FALSE, key |-> keyFile, keyFile |-> keyFile, made |-> keysMade]
    ELSE IF Exists(primary)
      THEN [raised |-> TRUE, key |-> 0, keyFile |-> keyFile, made |-> keysMade]
      ELSE [raised |-> FALSE, key |-> keysMade + 1, keyFile |-> keysMade + 1,
            made |-> keysMade + 1]

\* _load whose except branch leaves the store marked as loaded
LoadKeepsLoaded(enc, ky) ==
  IF Exists(primary) /\ primary.kind # "empty"
    THEN LET dec == Decode(enc, ky, primary)
         IN  IF (primary.marker /\ ~enc) \/ (~primary.marker /\ enc) \/ ~dec.ok
               THEN [db |-> EmptyDict, loaded |-> TRUE]
               ELSE [db |-> dec.map, loaded |-> TRUE]
    ELSE [db |-> EmptyDict, loaded |-> TRUE]

\* _load that takes a zero-length storage file for a file it cannot decode
LoadRejectsEmpty(enc, ky) ==
  IF Exists(primary)
    THEN LET dec == Decode(enc, ky, primary)
         IN  IF (primary.marker /\ ~enc) \/ (~primary.marker /\ enc) \/ ~dec.ok
               THEN [db |-> EmptyDict, loaded |-> FALSE]
               ELSE [db |-> dec.map, loaded |-> TRUE]
    ELSE [db |-> EmptyDict, loaded |-> TRUE]

\* _load: the map and the loaded flag the store starts with
Load(enc, ky) ==
  IF Exists(primary) /\ primary.kind # "empty"
    THEN LET is_encrypted == primary.marker
             dec == Decode(enc, ky, primary)
         IN  IF (is_encrypted /\ ~enc) \/ (~is_encrypted /\ enc) \/ ~dec.ok
               THEN [db |-> EmptyDict, loaded |-> FALSE]
               ELSE [db |-> dec.map, loaded |-> TRUE]
    ELSE [db |-> EmptyDict, loaded |-> TRUE]

\* the security mode, as the calls' record names it
Mode(enc) == IF enc THEN "enc" ELSE "plain"

\* PickleDB(location, encryption=enc) in a process that holds no store
Construct(enc) ==
  /\ ~alive
  /\ pc = "idle"
  /\ (enc /\ keyFile = 0 /\ ~Exists(primary)) => keysMade < MaxKeys
  /\ LET s == IF enc THEN SetupEncryption
                     ELSE [raised |-> FALSE, key |-> 0, keyFile |-> keyFile,
                           made |-> keysMade]
         l == Load(enc, s.key)
     IN  IF s.raised
           THEN /\ last' = Ret("init", "", Mode(enc), "raise")
                /\ UNCHANGED <<files, store, keysMade>>
           ELSE /\ keyFile' = s.keyFile
                /\ keysMade' = s.made
                /\ alive' = TRUE
                /\ encryption' = enc
                /\ key' = s.key
                /\ db' = l.db
                /\ loaded' = l.loaded
                /\ last' = Ret("init", "", Mode(enc), "ok")
                /\ UNCHANGED <<primary, tmp, backups>>
  /\ UNCHANGED <<now, workers, pc, frame, history>>

\* The store object is gone: nothing is flushed, the files stay
Gone ==
  /\ alive' = FALSE
  /\ encryption' = FALSE
  /\ key' = 0
  /\ db' = EmptyDict
  /\ loaded' = FALSE
  /\ pc' = "idle"
  /\ frame' = NoFrame
  /\ workers' = [t \in Threads |-> NoWorker]

\* The process exits between two calls
Exit ==
  /\ alive
  /\ pc = "idle"
  /\ \A t \in Threads : workers[t].pc = "idle"
  /\ Gone
  /\ last' = Ret("exit", "", "", "")
  /\ UNCHANGED <<files, now, keysMade, history>>

\* ----------------------------------------------------- map operations
\* set() that also dumps the map into the storage file, as an auto-dump
\* option would
SetAutoDump(k, v) ==
  /\ alive /\ pc = "idle"
  /\ IF ~loaded
       THEN /\ last' = Ret("set", k, v, None)
            /\ UNCHANGED <<db, primary>>
       ELSE /\ db' = DictSet(db, Str(k), v)
            /\ primary' = Encode(encryption, key, db').bytes
            /\ last' = Ret("set", k, v, "True")
  /\ UNCHANGED <<tmp, keyFile, backups, now, workers, keysMade, alive, encryption, key,
                 loaded, pc, frame, history>>

\* set(key, value)
Set(k, v) ==
  /\ alive /\ pc = "idle"
  /\ IF ~loaded
       THEN /\ last' = Ret("set", k, v, None)
            /\ db' = db
       ELSE /\ db' = DictSet(db, Str(k), v)
            /\ last' = Logged(Ret("set", k, v, "True"), <<Log("SET", Str(k), v)>>)
  /\ UNCHANGED <<files, now, workers, keysMade, alive, encryption, key, loaded, pc, frame,
                 history>>

\* What a caller of get() reads as "no such key": api.py answers 404 when
\* the value returned is None
Absent(r) == r = None

\* get(key): the value, or None
GetResult(k) == IF ~loaded THEN None ELSE DictGet(db, Str(k))

Get(k) ==
  /\ alive /\ pc = "idle"
  /\ last' = Ret("get", k, "", GetResult(k))
  /\ UNCHANGED <<files, now, workers, keysMade, store, pc, frame, history>>

\* remove() that looks the key up as it was given, without str(key)
RemoveNoCoerce(k) ==
  /\ alive /\ pc = "idle"
  /\ IF ~loaded
       THEN /\ last' = Ret("remove", k, "", None)
            /\ db' = db
       ELSE IF k \in DOMAIN db
         THEN /\ db' = DictDel(db, k)
              /\ last' = Logged(Ret("remove", k, "", "True"), <<Log("REMOVE", k, None)>>)
         ELSE /\ db' = db
              /\ last' = Ret("remove", k, "", "False")
  /\ UNCHANGED <<files, now, workers, keysMade, alive, encryption, key, loaded, pc, frame,
                 history>>

\* remove(key)
Remove(k) ==
  /\ alive /\ pc = "idle"
  /\ IF ~loaded
       THEN /\ last' = Ret("remove", k, "", None)
            /\ db' = db
       ELSE IF Str(k) \in DOMAIN db
         THEN /\ db' = DictDel(db, Str(k))
              /\ last' = Logged(Ret("remove", k, "", "True"),
                                <<Log("REMOVE", Str(k), None)>>)
         ELSE /\ db' = db
              /\ last' = Ret("remove", k, "", "False")
  /\ UNCHANGED <<files, now, workers, keysMade, alive, encryption, key, loaded, pc, frame,
                 history>>

\* purge() without the check of self.loaded
PurgeUngated ==
  /\ alive /\ pc = "idle"
  /\ db' = EmptyDict
  /\ last' = Logged(Ret("purge", "", "", "True"), <<Log("PURGE", "ALL_KEYS", None)>>)
  /\ UNCHANGED <<files, now, workers, keysMade, alive, encryption, key, loaded, pc, frame,
                 history>>

\* purge()
Purge ==
  /\ alive /\ pc = "idle"
  /\ IF ~loaded
       THEN /\ last' = Ret("purge", "", "", None)
            /\ db' = db
       ELSE /\ db' = EmptyDict
            /\ last' = Logged(Ret("purge", "", "", "True"),
                              <<Log("PURGE", "ALL_KEYS", None)>>)
  /\ UNCHANGED <<files, now, workers, keysMade, alive, encryption, key, loaded, pc, frame,
                 history>>

\* all(): list(self.db.keys()), or None
All ==
  /\ alive /\ pc = "idle"
  /\ last' = IF ~loaded THEN Ret("all", "", "", None)
                        ELSE RetKeys("all", "", "list", DOMAIN db)
  /\ UNCHANGED <<files, now, workers, keysMade, store, pc, frame, history>>

\* self.db.update(data): the keys go in as they are, not through str()
DictUpdate(d, data) ==
  [x \in (DOMAIN d) \cup (DOMAIN data) |-> IF x \in DOMAIN data THEN data[x] ELSE d[x]]

\* The order in which a dict or a list of this model hands out its keys
KeyOrder == <<"k", "1", "#1">>

\* list(data.keys()), as a sequence
RECURSIVE KeysFrom(_, _)
KeysFrom(data, order) ==
  IF order = <<>> THEN <<>>
  ELSE (IF Head(order) \in DOMAIN data THEN <<Head(order)>> ELSE <<>>)
         \o KeysFrom(data, Tail(order))

Keys(data) == KeysFrom(data, KeyOrder)

\* for key, value in data.items(): self._log("SET_MANY", key, value)
SetManyLog(data) ==
  [i \in 1..Len(Keys(data)) |-> Log("SET_MANY", Keys(data)[i], data[Keys(data)[i]])]

\* set_many(data)
SetMany(data) ==
  /\ alive /\ pc = "idle"
  /\ IF ~loaded
       THEN /\ last' = Ret("set_many", "", "", None)
            /\ db' = db
       ELSE /\ db' = DictUpdate(db, data)
            /\ last' = Logged(Ret("set_many", "", "", "True"), SetManyLog(data))
  /\ UNCHANGED <<files, now, workers, keysMade, alive, encryption, key, loaded, pc, frame,
                 history>>

\* the loop of remove_many: a key found in the map has str(key) popped
RECURSIVE RemoveLoop(_, _)
RemoveLoop(d, ks) ==
  IF ks = <<>> THEN d
  ELSE RemoveLoop(IF Head(ks) \in DOMAIN d THEN DictDel(d, Str(Head(ks))) ELSE d,
                  Tail(ks))

\* what the loop of remove_many logs: REMOVE_MANY for each key found in
\* the map, before str(key) is popped
RECURSIVE RemoveManyLog(_, _)
RemoveManyLog(d, ks) ==
  IF ks = <<>> THEN <<>>
  ELSE IF Head(ks) \in DOMAIN d
    THEN <<Log("REMOVE_MANY", Head(ks), None)>>
           \o RemoveManyLog(DictDel(d, Str(Head(ks))), Tail(ks))
    ELSE RemoveManyLog(d, Tail(ks))

\* remove_many(keys)
RemoveMany(ks) ==
  /\ alive /\ pc = "idle"
  /\ IF ~loaded
       THEN /\ last' = Ret("remove_many", "", "", None)
            /\ db' = db
       ELSE /\ db' = RemoveLoop(db, ks)
            /\ last' = Logged(Ret("remove_many", "", "", "True"),
                              RemoveManyLog(db, ks))
  /\ UNCHANGED <<files, now, workers, keysMade, alive, encryption, key, loaded, pc, frame,
                 history>>

\* str(value), as search_by_value takes it
StrOf(v) == IF v = None THEN "None" ELSE "1"

\* sub in s, for the strings of this model
Contains(sub, s) == sub = "" \/ sub = s \/ (sub = "on" /\ s = "None")

\* search_by_key(substring): `substring in key` raises TypeError on an int key
SearchByKey(sub) ==
  /\ alive /\ pc = "idle"
  /\ last' = IF ~loaded THEN Ret("search_by_key", sub, "", None)
             ELSE IF \E k \in DOMAIN db : ~IsStr(k)
               THEN Ret("search_by_key", sub, "", "raise")
               ELSE RetKeys("search_by_key", sub, "list",
                            {k \in DOMAIN db : Contains(sub, k)})
  /\ UNCHANGED <<files, now, workers, keysMade, store, pc, frame, history>>

\* search_by_value(search_value)
SearchByValue(needle) ==
  /\ alive /\ pc = "idle"
  /\ last' = IF ~loaded THEN Ret("search_by_value", needle, "", None)
             ELSE RetKeys("search_by_value", needle, "list",
                          {k \in DOMAIN db : Contains(needle, StrOf(db[k]))})
  /\ UNCHANGED <<files, now, workers, keysMade, store, pc, frame, history>>

\* filter(condition): the condition is given as the set of values it accepts
Filter(accepts) ==
  /\ alive /\ pc = "idle"
  /\ last' = IF ~loaded THEN Ret("filter", "", "", None)
             ELSE RetKeys("filter", "", "dict", {k \in DOMAIN db : db[k] \in accepts})
  /\ UNCHANGED <<files, now, workers, keysMade, store, pc, frame, history>>

\* fuzzy_search(search_key, threshold): score is what rapidfuzz's
\* process.extract gives each key (at most 5 keys exist here, so limit=5
\* cuts nothing); an int key is no string to score and raises TypeError
FuzzySearch(q, threshold, score) ==
  /\ alive /\ pc = "idle"
  /\ last' = IF ~loaded THEN Ret("fuzzy_search", q, "", None)
             ELSE IF \E k \in DOMAIN db : ~IsStr(k)
               THEN Ret("fuzzy_search", q, "", "raise")
               ELSE RetKeys("fuzzy_search", q, "list",
                            {k \in DOMAIN db : score[k] >= threshold})
  /\ UNCHANGED <<files, now, workers, keysMade, store, pc, frame, history>>

\* ---------------------------------------------------------------- backups
\* save() rotates only when more than this many backups exist
RotateAbove == 5

\* the default of save's max_back_ups and of cleanup_backups' max_backups
DefaultMaxBackups == 5

\* sorted(os.listdir(self.backup_dir))[:-max_backups]: the names removed.
\* In Python xs[:-0] is xs[:0], the empty list.
Removed(names, max) ==
  IF max = 0 THEN {}
  ELSE {n \in names : Cardinality({x \in names : x > n}) >= max}

\* the directory after cleanup_backups(max_backups)
Cleaned(dir, max) ==
  IF Cardinality(DOMAIN dir) > max
    THEN [n \in (DOMAIN dir) \ Removed(DOMAIN dir, max) |-> dir[n]]
    ELSE dir

\* list_backups()
ListBackups ==
  /\ alive /\ pc = "idle"
  /\ last' = RetKeys("list_backups", "", "list", DOMAIN backups)
  /\ UNCHANGED <<files, now, workers, keysMade, store, pc, frame, history>>

\* cleanup_backups(max_backups)
CleanupBackups(max) ==
  /\ alive /\ pc = "idle"
  /\ backups' = Cleaned(backups, max)
  /\ snap' = [n \in (DOMAIN snap) \cap (DOMAIN backups') |-> snap[n]]
  /\ last' = Ret("cleanup_backups", "", "", None)
  /\ UNCHANGED <<primary, tmp, keyFile, now, workers, keysMade, store, pc, frame, committed,
                 saves>>

\* ------------------------------------------------------------------- save
\* save() is over: back in restore (which ignores what save returned and
\* returns True), or back at the caller with r
Return(caller, file, r, stage) ==
  /\ last' = IF caller = "restore"
               THEN [Ret("restore", "", "", "True") EXCEPT
                       !.file = file, !.inner = r, !.stage = stage]
               ELSE [Ret("save", "", "", r) EXCEPT !.stage = stage]
  /\ pc' = "idle"
  /\ frame' = NoFrame

\* save(backup, max_back_ups) up to open(temp_location, 'wb'); io = "err":
\* the open raises
SaveBegin(backup, max, io) ==
  /\ alive /\ pc = "idle"
  /\ IF ~loaded
       THEN /\ Return("save", 0, None, "gate")
            /\ tmp' = tmp
       ELSE IF io = "err"
         THEN /\ Return("save", 0, "False", "open")
              /\ tmp' = tmp
         ELSE /\ tmp' = EmptyFile
              /\ pc' = "save_opened"
              /\ frame' = [backup |-> backup, max |-> max, caller |-> "save",
                           file |-> -1, old |-> primary]
              /\ last' = last
  /\ UNCHANGED <<primary, keyFile, backups, now, workers, keysMade, store, history>>

\* orjson.dumps raises inside the with block: the file is closed empty
SaveEncodeFail ==
  /\ pc = "save_opened"
  /\ ~Encode(encryption, key, db).ok
  /\ Return(frame.caller, frame.file, "False", "encode")
  /\ UNCHANGED <<files, now, workers, keysMade, store, history>>

\* save() that opens the storage file itself instead of a temporary file:
\* the first part of the bytes lands in the storage file
SaveWritePartDirect ==
  /\ pc = "save_opened"
  /\ Encode(encryption, key, db).ok
  /\ primary' = Truncated(Encode(encryption, key, db).bytes)
  /\ pc' = "save_writing"
  /\ UNCHANGED <<tmp, keyFile, backups, now, workers, keysMade, store, frame, last, history>>

\* temp_file.write(...): a first part of the bytes reaches the file
SaveWritePart ==
  /\ pc = "save_opened"
  /\ Encode(encryption, key, db).ok
  /\ tmp' = Truncated(Encode(encryption, key, db).bytes)
  /\ pc' = "save_writing"
  /\ UNCHANGED <<primary, keyFile, backups, now, workers, keysMade, store, frame, last, history>>

\* temp_file.write(...) and the close: all the bytes are in the file
SaveWriteAll ==
  /\ pc \in {"save_opened", "save_writing"}
  /\ Encode(encryption, key, db).ok
  /\ tmp' = Encode(encryption, key, db).bytes
  /\ pc' = "save_written"
  /\ UNCHANGED <<primary, keyFile, backups, now, workers, keysMade, store, frame, last, history>>

\* save() that renames in a finally block: the write raises and what the
\* temporary file holds still replaces the storage file
SaveWriteFailReplace ==
  /\ pc \in {"save_opened", "save_writing"}
  /\ Encode(encryption, key, db).ok
  /\ primary' = tmp
  /\ tmp' = NoFile
  /\ Return(frame.caller, frame.file, "False", "write")
  /\ UNCHANGED <<keyFile, backups, now, workers, keysMade, store, history>>

\* the write raises (disk full, I/O error)
SaveWriteFail ==
  /\ pc \in {"save_opened", "save_writing"}
  /\ Encode(encryption, key, db).ok
  /\ Return(frame.caller, frame.file, "False", "write")
  /\ UNCHANGED <<files, now, workers, keysMade, store, history>>

\* os.replace(temp_location, self.location); io = "err": it raises
SaveReplace(io) ==
  /\ pc = "save_written"
  /\ IF io = "err"
       THEN /\ Return(frame.caller, frame.file, "False", "replace")
            /\ UNCHANGED <<primary, tmp, committed>>
       ELSE /\ primary' = tmp
            /\ tmp' = NoFile
            /\ committed' = [mode |-> Mode(encryption), key |-> key, map |-> db]
            /\ IF frame.backup
                 THEN /\ pc' = "backup"
                      /\ UNCHANGED <<frame, last>>
                 ELSE Return(frame.caller, frame.file, "True", "done")
  /\ UNCHANGED <<keyFile, backups, now, workers, keysMade, store, snap, saves>>

\* _create_backup up to open(backup_path, 'wb'): the file named by the clock
\* is created or cut to zero length; io = "err": the open raises, which
\* _create_backup prints and swallows
BackupOpen(io) ==
  /\ pc = "backup"
  /\ IF io = "err"
       THEN /\ pc' = "backup_done"
            /\ UNCHANGED <<backups, snap, frame>>
       ELSE /\ backups' = DictSet(backups, now, EmptyFile)
            /\ snap' = DictDel(snap, now)
            /\ frame' = [frame EXCEPT !.file = now]
            /\ pc' = "backup_opened"
  /\ UNCHANGED <<primary, tmp, keyFile, now, workers, keysMade, store, last, committed,
                 saves>>

\* backup_file.write(...); io = "part": the write raises after a first part,
\* io = "err": before any byte; both are printed and swallowed
BackupWrite(io) ==
  /\ pc = "backup_opened"
  /\ LET e == Encode(encryption, key, db)
     IN  IF e.ok /\ io = "ok"
           THEN /\ backups' = DictSet(backups, frame.file, e.bytes)
                /\ snap' = DictSet(snap, frame.file, db)
           ELSE IF e.ok /\ io = "part"
             THEN /\ backups' = DictSet(backups, frame.file, Truncated(e.bytes))
                  /\ snap' = snap
             ELSE UNCHANGED <<backups, snap>>
  /\ pc' = "backup_done"
  /\ UNCHANGED <<primary, tmp, keyFile, now, workers, keysMade, store, frame, last,
                 committed, saves>>

\* if len(self.list_backups()) > 5: self.cleanup_backups(max_back_ups);
\* return True.  counting: the specification keeps the history `saves`.
SaveFinish(counting) ==
  /\ pc = "backup_done"
  /\ backups' = IF Cardinality(DOMAIN backups) > RotateAbove
                  THEN Cleaned(backups, frame.max) ELSE backups
  /\ snap' = [n \in (DOMAIN snap) \cap (DOMAIN backups') |-> snap[n]]
  /\ Return(frame.caller, frame.file, "True", "done")
  /\ saves' = IF counting
                THEN [n |-> saves.n + 1, limits |-> saves.limits \cup {frame.max},
                      names |-> saves.names \cup
                                 (IF frame.file >= 0 THEN {frame.file} ELSE {})]
                ELSE saves
  /\ UNCHANGED <<primary, tmp, keyFile, now, workers, keysMade, store, committed>>

\* ---------------------------------------------------------------- restore
\* restore() that lets its save() take the default backup=True
RestoreSaveBackupDefault == TRUE

\* the backup argument of the save() that restore calls
RestoreSaveBackup == FALSE

\* restore() that marks the store as loaded once the backup has decoded
RestoreOpensGate(file, io) ==
  /\ alive /\ pc = "idle"
  /\ IF file \notin DOMAIN backups \/ ~Decode(encryption, key, backups[file]).ok
       THEN /\ last' = [Ret("restore", "", "", "False") EXCEPT !.file = file]
            /\ UNCHANGED <<db, loaded, tmp, pc, frame>>
       ELSE /\ db' = Decode(encryption, key, backups[file]).map
            /\ loaded' = TRUE
            /\ IF io = "err"
                 THEN /\ Return("restore", file, "False", "open")
                      /\ tmp' = tmp
                 ELSE /\ tmp' = EmptyFile
                      /\ pc' = "save_opened"
                      /\ frame' = [backup |-> RestoreSaveBackup,
                                   max |-> DefaultMaxBackups, caller |-> "restore",
                                   file |-> file, old |-> primary]
                      /\ last' = last
  /\ UNCHANGED <<primary, keyFile, backups, now, workers, keysMade, alive, encryption, key,
                 history>>

\* restore(backup_filename) up to the open of the temporary file inside the
\* save(backup=False) it calls; io = "err": that open raises
RestoreBegin(file, io) ==
  /\ alive /\ pc = "idle"
  /\ IF file \notin DOMAIN backups
       THEN /\ last' = [Ret("restore", "", "", "False") EXCEPT !.file = file]
            /\ UNCHANGED <<db, tmp, pc, frame>>
       ELSE LET dec == Decode(encryption, key, backups[file])
            IN  IF ~dec.ok
                  THEN /\ last' = [Ret("restore", "", "", "False") EXCEPT !.file = file]
                       /\ UNCHANGED <<db, tmp, pc, frame>>
                  ELSE /\ db' = dec.map
                       /\ IF ~loaded
                            THEN /\ Return("restore", file, None, "gate")
                                 /\ tmp' = tmp
                            ELSE IF io = "err"
                              THEN /\ Return("restore", file, "False", "open")
                                   /\ tmp' = tmp
                              ELSE /\ tmp' = EmptyFile
                                   /\ pc' = "save_opened"
                                   /\ frame' = [backup |-> RestoreSaveBackup,
                                                max |-> DefaultMaxBackups,
                                                caller |-> "restore",
                                                file |-> file, old |-> primary]
                                   /\ last' = last
  /\ UNCHANGED <<primary, keyFile, backups, now, workers, keysMade, alive, encryption, key,
                 loaded, history>>

\* ----------------------------------------------------------------- facade
\* The handlers of api.py run on worker threads, so two requests may be
\* inside save() at once.  A worker's save() is followed one filesystem call
\* at a time; each call acts on the file the worker's descriptor is open on,
\* under whatever name that file now goes.

\* len(orjson.dumps(map)): braces, then "k":v for each entry (the keys of
\* this model are one character long), commas between
JsonLen(text) ==
  LET n == Cardinality(text)
      nulls == Cardinality({p \in text : p[2] = "null"})
  IN  2 + 5 * n + 3 * nulls + (IF n > 0 THEN n - 1 ELSE 0)

\* length of the Fernet token of an n-character text: version, timestamp and
\* IV, the text padded to whole AES blocks, the HMAC; in base64
TokenLen(n) == 4 * ((57 + 16 * ((n \div 16) + 1) + 2) \div 3)

\* length of a file that is empty or holds a complete encoding
Size(b) ==
  IF b.kind = "plain" THEN JsonLen(b.text)
  ELSE IF b.kind = "token" THEN TokenLen(JsonLen(b.text))
  ELSE 0

\* a write that stops after the first part of the bytes
WriteOverPart(old, new) == Truncated(new)

\* The file after `new` is written from offset 0 by a descriptor opened with
\* 'wb' (the open has truncated the file; another descriptor may have written
\* since): what was there beyond the length of `new` stays behind it
WriteOver(old, new) ==
  IF old.kind = "junk" THEN old
  ELSE IF Size(new) >= Size(old) THEN new
  ELSE Junk(new.marker)

\* the response of a handler whose save() returned r: the handlers do not
\* look at r
Respond(t, r, stage) ==
  /\ last' = [Ret(workers[t].req, "", "",
                  IF workers[t].req = "set_item" THEN "Data saved" ELSE "Key deleted")
               EXCEPT !.inner = r, !.stage = stage]
  /\ workers' = [workers EXCEPT ![t] = NoWorker]

\* worker t takes a request that changes the map
Begin(t, req) ==
  [u \in Threads |->
     IF u = t
       THEN [NoWorker EXCEPT !.pc = "called", !.req = req,
                             !.alone = \A o \in Threads \ {t} : workers[o].pc = "idle"]
       ELSE IF workers[u].pc # "idle" THEN [workers[u] EXCEPT !.alone = FALSE]
       ELSE workers[u]]

\* POST /set, up to the return of db.set(item.key, item.value)
SetItem(t, k, v) ==
  /\ alive /\ pc = "idle"
  /\ workers[t].pc = "idle"
  /\ db' = IF loaded THEN DictSet(db, Str(k), v) ELSE db
  /\ workers' = Begin(t, "set_item")
  /\ UNCHANGED <<files, now, keysMade, alive, encryption, key, loaded, pc, frame,
                 last, history>>

\* DELETE /delete/{key}, up to the return of db.remove(key): 404 unless it
\* returned True
DeleteItem(t, k) ==
  /\ alive /\ pc = "idle"
  /\ workers[t].pc = "idle"
  /\ IF loaded /\ Str(k) \in DOMAIN db
       THEN /\ db' = DictDel(db, Str(k))
            /\ workers' = Begin(t, "delete_item")
            /\ last' = last
       ELSE /\ last' = Ret("delete_item", k, "", "404")
            /\ UNCHANGED <<db, workers>>
  /\ UNCHANGED <<files, now, keysMade, alive, encryption, key, loaded, pc, frame,
                 history>>

\* GET /get/{key}: 404 when db.get(key) is None
GetItem(k) ==
  /\ alive /\ pc = "idle"
  /\ last' = IF Absent(GetResult(k)) THEN Ret("get_item", k, "", "404")
             ELSE Ret("get_item", k, GetResult(k), "200")
  /\ UNCHANGED <<files, now, workers, keysMade, store, pc, frame, history>>

\* db.save() of a handler, up to open(temp_location, 'wb'): the file is
\* created, or the file of that name is cut to zero length
WorkerOpen(t) ==
  /\ alive
  /\ workers[t].pc = "called"
  /\ IF ~loaded
       THEN /\ Respond(t, None, "gate")
            /\ tmp' = tmp
       ELSE /\ tmp' = EmptyFile
            /\ workers' = [workers EXCEPT ![t].pc = "opened", ![t].fd = "tmp"]
            /\ last' = last
  /\ UNCHANGED <<primary, keyFile, backups, now, keysMade, store, pc, frame, history>>

\* temp_file.write(self._encrypt(orjson.dumps(self.db).decode())) and the
\* close: the bytes of the map as it is now go into the file the worker
\* opened
WorkerWrite(t) ==
  /\ workers[t].pc = "opened"
  /\ LET bytes == Encode(encryption, key, db).bytes
         at == workers[t].fd
     IN  /\ tmp' = IF at = "tmp" THEN WriteOver(tmp, bytes) ELSE tmp
         /\ primary' = IF at = "primary" THEN WriteOver(primary, bytes) ELSE primary
         /\ workers' = [workers EXCEPT ![t].pc = "written", ![t].fd = "none",
                                       ![t].wrote = at]
  /\ UNCHANGED <<keyFile, backups, now, keysMade, store, pc, frame, last, history>>

\* the name a file goes by after temp_location has replaced self.location
Renamed(name) ==
  IF name = "tmp" THEN "primary" ELSE IF name = "primary" THEN "gone" ELSE name

\* os.replace(temp_location, self.location): FileNotFoundError, and save()
\* returns False, when no file of that name is left
WorkerReplace(t) ==
  /\ workers[t].pc = "written"
  /\ IF Exists(tmp)
       THEN /\ primary' = tmp
            /\ tmp' = NoFile
            /\ committed' =
                 LET dec == Decode(encryption, key, tmp)
                 IN  IF dec.ok THEN [mode |-> Mode(encryption), key |-> key,
                                     map |-> dec.map]
                     ELSE [mode |-> "foreign", key |-> 0, map |-> EmptyDict]
            /\ workers' = [u \in Threads |->
                             IF u = t THEN [workers[t] EXCEPT !.pc = "replaced"]
                             ELSE [workers[u] EXCEPT !.fd = Renamed(workers[u].fd)]]
            /\ last' = last
       ELSE /\ Respond(t, "False", "replace")
            /\ UNCHANGED <<primary, tmp, committed>>
  /\ UNCHANGED <<keyFile, backups, now, keysMade, store, pc, frame, snap, saves>>

\* the rest of save() (backup=True by default): _create_backup, the
\* rotation, return True
WorkerBackup(t) ==
  /\ workers[t].pc = "replaced"
  /\ LET made == DictSet(backups, now, Encode(encryption, key, db).bytes)
     IN  backups' = IF Cardinality(DOMAIN made) > RotateAbove
                      THEN Cleaned(made, DefaultMaxBackups) ELSE made
  /\ snap' = [n \in (DOMAIN snap \cup {now}) \cap (DOMAIN backups') |->
                IF n = now THEN db ELSE snap[n]]
  /\ Respond(t, "True", "done")
  /\ UNCHANGED <<primary, tmp, keyFile, now, keysMade, store, pc, frame, committed,
                 saves>>

\* ------------------------------------------------------------ environment
\* The process is killed inside a call
Crash ==
  /\ alive
  /\ pc # "idle" \/ \E t \in Threads : workers[t].pc # "idle"
  /\ Gone
  /\ last' = Ret("crash", "", "", "")
  /\ UNCHANGED <<files, now, keysMade, history>>

\* While no process runs, the storage file is overwritten from outside
\* (damage, foreign bytes): the files _load has to reject
Foreign == {EmptyFile, Junk(FALSE), Junk(TRUE)}

Tamper(bytes) ==
  /\ ~alive
  /\ primary # bytes
  /\ primary' = bytes
  /\ committed' = [mode |-> "foreign", key |-> 0, map |-> EmptyDict]
  /\ last' = Ret("tamper", "", "", "")
  /\ UNCHANGED <<tmp, keyFile, backups, now, workers, keysMade, store, pc, frame, snap, saves>>

\* The clock advances
Tick(limit) ==
  /\ now < limit
  /\ now' = now + 1
  /\ UNCHANGED <<files, keysMade, store, pc, frame, last, history, workers>>

\* ------------------------------------------------------------------ inputs
Dicts(keys) == UNION {[S -> Vals] : S \in SUBSET keys}
KeyLists(keys) ==
  {<<>>} \cup {<<a>> : a \in keys} \cup {<<a, b>> : a, b \in keys}
Limits == {0, 2, DefaultMaxBackups}
Needles == {"", "1", "on"}
Scores == [StrKeys -> {50, 100}]
IO == {"ok", "err"}

\* ---------------------------------------------------------- specifications
\* Spec: the map operations and the commit of the map, in normal service:
\* every call completes, the process exits only between calls, the store is
\* reopened in either security mode, and no backup is asked for.
Next ==
  \/ \E enc \in BOOLEAN : Construct(enc)
  \/ Exit
  \/ \E k \in RawKeys, v \in Vals : Set(k, v)
  \/ \E k \in RawKeys : Get(k)
  \/ \E k \in RawKeys : Remove(k)
  \/ Purge
  \/ All
  \/ \E data \in Dicts(RawKeys) : SetMany(data)
  \/ \E ks \in KeyLists(RawKeys) : RemoveMany(ks)
  \/ SaveBegin(FALSE, DefaultMaxBackups, "ok")
  \/ SaveEncodeFail
  \/ SaveWriteAll
  \/ SaveReplace("ok")

Spec == Init /\ [][Next]_vars

\* SpecBackup: backups, rotation and restore in normal service, over the
\* one key "1" while the clock runs.
NextBackup ==
  \/ \E enc \in BOOLEAN : Construct(enc)
  \/ Exit
  \/ Tick(MaxTime)
  \/ \E v \in Vals : Set("1", v)
  \/ Get("1")
  \/ Purge
  \/ All
  \/ ListBackups
  \/ \E max \in Limits : CleanupBackups(max)
  \/ \E backup \in BOOLEAN, max \in Limits : SaveBegin(backup, max, "ok")
  \/ SaveWriteAll
  \/ SaveReplace("ok")
  \/ BackupOpen("ok")
  \/ BackupWrite("ok")
  \/ SaveFinish(FALSE)
  \/ \E file \in 0..MaxTime : RestoreBegin(file, "ok")

SpecBackup == Init /\ [][NextBackup]_vars

\* SpecCrash: save() and restore() with the process killed, or a filesystem
\* call failing, at any step; "#1" is the key that orjson.dumps rejects.
NextCrash ==
  \/ \E enc \in BOOLEAN : Construct(enc)
  \/ Exit
  \/ Crash
  \/ \E v \in Vals : Set("1", v)
  \/ \E data \in Dicts(IntKeys) : SetMany(data)
  \/ Purge
  \/ \E backup \in BOOLEAN, io \in IO : SaveBegin(backup, DefaultMaxBackups, io)
  \/ SaveEncodeFail
  \/ SaveWritePart
  \/ SaveWriteAll
  \/ SaveWriteFail
  \/ \E io \in IO : SaveReplace(io)
  \/ \E io \in IO : BackupOpen(io)
  \/ \E io \in {"ok", "err", "part"} : BackupWrite(io)
  \/ SaveFinish(FALSE)
  \/ \E io \in IO : RestoreBegin(0, io)

SpecCrash == Init /\ [][NextCrash]_vars

\* SpecGate: the storage file may be overwritten from outside between two
\* runs of the process, so that _load meets bytes it cannot decode; every
\* method is then called on the store it leaves.
NextGate ==
  \/ \E enc \in BOOLEAN : Construct(enc)
  \/ Exit
  \/ \E b \in Foreign : Tamper(b)
  \/ \E v \in Vals : Set("1", v)
  \/ Get("1")
  \/ Remove("1")
  \/ Purge
  \/ All
  \/ \E data \in Dicts({"1"}) : SetMany(data)
  \/ \E ks \in KeyLists({"1"}) : RemoveMany(ks)
  \/ \E sub \in {"", "1"} : SearchByKey(sub)
  \/ \E needle \in Needles : SearchByValue(needle)
  \/ \E accepts \in SUBSET Vals : Filter(accepts)
  \/ \E score \in Scores : FuzzySearch("1", 80, score)
  \/ \E backup \in BOOLEAN, io \in IO : SaveBegin(backup, DefaultMaxBackups, io)
  \/ SaveWriteAll
  \/ SaveReplace("ok")
  \/ BackupOpen("ok")
  \/ BackupWrite("ok")
  \/ SaveFinish(FALSE)
  \/ \E max \in {0, DefaultMaxBackups} : CleanupBackups(max)
  \/ RestoreBegin(0, "ok")

SpecGate == Init /\ [][NextGate]_vars

\* SpecRotation: nothing but save(backup=True) on a new store while the
\* clock runs, with the saves counted.
RotationSave(max) ==
  /\ saves.n < MaxSaves
  /\ SaveBegin(TRUE, max, "ok")

NextRotation ==
  \/ Construct(FALSE)
  \/ Tick(RotationTime)
  \/ \E max \in {2, DefaultMaxBackups} : RotationSave(max)
  \/ SaveWriteAll
  \/ SaveReplace("ok")
  \/ BackupOpen("ok")
  \/ BackupWrite("ok")
  \/ SaveFinish(TRUE)

SpecRotation == Init /\ [][NextRotation]_vars

\* SpecAudit: the calls that change the map and the records they hand to
\* the log, on stores that are usable and on stores that are not (the
\* storage file is only ever written from outside here).
NextAudit ==
  \/ Construct(FALSE)
  \/ Exit
  \/ \E b \in Foreign : Tamper(b)
  \/ \E k \in RawKeys, v \in Vals : Set(k, v)
  \/ \E k \in RawKeys : Get(k)
  \/ \E k \in RawKeys : Remove(k)
  \/ Purge
  \/ All
  \/ \E data \in Dicts(RawKeys) : SetMany(data)
  \/ \E ks \in KeyLists(RawKeys) : RemoveMany(ks)

SpecAudit == Init /\ [][NextAudit]_vars

\* SpecApi: the facade serving requests on two worker threads, over a
\* store of either security mode that loaded or did not.
NextApi ==
  \/ \E enc \in BOOLEAN : Construct(enc)
  \/ Exit
  \/ \E b \in Foreign : Tamper(b)
  \/ \E t \in Threads, v \in Vals : SetItem(t, "1", v)
  \/ \E t \in Threads : DeleteItem(t, "1")
  \/ GetItem("1")
  \/ \E t \in Threads : WorkerOpen(t)
  \/ \E t \in Threads : WorkerWrite(t)
  \/ \E t \in Threads : WorkerReplace(t)
  \/ \E t \in Threads : WorkerBackup(t)

SpecApi == Init /\ [][NextApi]_vars

\* ------------------------------------------------------------------ claims
\* A step of one of the calls the gate is meant to close
GatedOps ==
  {"set", "get", "remove", "purge", "set_many", "remove_many", "all",
   "search_by_key", "search_by_value", "filter", "fuzzy_search", "save", "restore"}

\* C1: while the store is not usable (loaded = FALSE), no call of set, get,
\* remove, purge, set_many, remove_many, all, the searches, filter, save or
\* restore changes the map in memory, the storage file or the backups.
C1_GateClosedNoChange ==
  [][(alive /\ ~loaded /\ alive' /\ last'.op \in GatedOps)
       => (db' = db /\ primary' = primary /\ backups' = backups)]_vars

\* the bytes that hold map m as the last save wrote it
CommittedBytes ==
  Encrypt(committed.mode = "enc", committed.key, OrjsonDumps(committed.map).text)

\* C2: whatever step of save() the process is killed at, the storage file
\* holds a complete encoding: that of the map committed before (all of the
\* file as it was when save() began, until the rename) or that of the map
\* being saved (from the rename on); never a part of one.
C2_AtomicCommit ==
  /\ committed.mode = "none" => primary = NoFile
  /\ committed.mode # "none" => primary = CommittedBytes
  /\ pc \in {"save_opened", "save_writing", "save_written"} => primary = frame.old
  /\ pc \in {"backup", "backup_opened", "backup_done"}
       => primary = Encode(encryption, key, db).bytes
  /\ last.op = "crash" => primary.kind \in {"nofile", "plain", "token"}

\* C2 witness: the process was killed while the temporary file was half
\* written, over a storage file committed before
C2_Witness ==
  /\ last.op = "crash"
  /\ tmp.kind = "junk"
  /\ primary.kind \in {"plain", "token"}
  /\ committed.map # EmptyDict

\* what the save() that just ended returned (inside restore: what restore got)
SaveRet(l) == IF l.op = "restore" THEN l.inner ELSE l.ret

\* C3: a save() on a usable store that ends because the temporary file
\* cannot be opened or written, or because the map cannot be encoded,
\* returns False and leaves the storage file as it was before the call.
C3_FailedSaveKeepsPrimary ==
  [][(/\ pc' = "idle"
      /\ last'.op \in {"save", "restore"}
      /\ last'.stage \in {"open", "encode", "write"}
      /\ (pc # "idle" \/ last' # last))
       => (/\ SaveRet(last') = "False"
           /\ primary' = (IF pc = "idle" THEN primary ELSE frame.old))]_vars

\* C3 witness: a save() failed in its write, leaving a part of the bytes in
\* the temporary file, over a storage file committed before
C3_Witness ==
  /\ last.op = "save" /\ last.stage = "write" /\ last.ret = "False"
  /\ tmp.kind = "junk"
  /\ primary.kind \in {"plain", "token"}

\* The construction that takes this step was configured with mode m
Constructing(m) ==
  /\ ~alive
  /\ last'.op = "init" /\ last'.val = m
  /\ (alive' \/ last' # last)

\* The storage file is not empty and a store in mode m cannot take it:
\* its marker is that of the other mode, or its bytes do not decode
Unloadable(m) ==
  /\ primary.kind \notin {"nofile", "empty"}
  /\ \/ primary.marker /\ m = "plain"
     \/ ~primary.marker /\ m = "enc"
     \/ ~Decode(m = "enc", keyFile, primary).ok

\* C4 as stated: a construction that meets such a file completes without
\* raising, with usable = false and an empty map.
C4_Original ==
  [][\A m \in {"plain", "enc"} :
       (Constructing(m) /\ Unloadable(m))
         => (last'.ret = "ok" /\ alive' /\ ~loaded' /\ db' = EmptyDict)]_vars

\* C4 amended: the same, for a construction that finds its key file when
\* encryption is enabled.
C4_LoadGate ==
  [][\A m \in {"plain", "enc"} :
       (Constructing(m) /\ Unloadable(m) /\ (m = "enc" => keyFile # 0))
         => (last'.ret = "ok" /\ alive' /\ ~loaded' /\ db' = EmptyDict)]_vars

\* C4 witness: a store constructed over bytes that do not decode
C4_Witness ==
  /\ last.op = "init" /\ last.ret = "ok"
  /\ primary.kind = "junk"
  /\ alive /\ ~loaded /\ db = EmptyDict

\* C5: a key file, once written, keeps its key; and a construction with
\* encryption enabled that finds the storage file but no key file raises,
\* writes no key file and leaves no store.
C5_KeyNeverRegenerated ==
  [][/\ keyFile # 0 => keyFile' = keyFile
     /\ (Constructing("enc") /\ keyFile = 0 /\ Exists(primary))
          => (last'.ret = "raise" /\ ~alive' /\ keyFile' = 0)]_vars

\* C5 witness: a construction has just raised over a storage file without key
C5_Witness ==
  /\ last.op = "init" /\ last.val = "enc" /\ last.ret = "raise"
  /\ keyFile = 0 /\ Exists(primary) /\ ~alive

\* C6: from an empty backup directory, after N save(backup=True) calls that
\* returned True, all with retention limit L < N (and each naming a backup
\* of its own second), exactly L backups remain, the L created last.
C6_Rotation ==
  \A L \in {2, DefaultMaxBackups} :
    (/\ pc = "idle"
     /\ saves.limits = {L}
     /\ saves.n > L
     /\ Cardinality(saves.names) = saves.n)
      => (/\ Cardinality(DOMAIN backups) = L
          /\ \A b \in DOMAIN backups :
               \A n \in saves.names \ DOMAIN backups : n < b)

\* A step inside a restore() call, or the one step of a restore() that
\* returns at once
RestoreStep ==
  \/ frame.caller = "restore"
  \/ frame'.caller = "restore"
  \/ pc = "idle" /\ pc' = "idle" /\ last'.op = "restore" /\ last' # last

\* C7: in normal service, on a usable store, restore(b) of a backup b that
\* is present succeeds and leaves as the live map the map b was written
\* from, whatever was set, removed, purged or saved since: the all() that
\* follows lists that map's keys and the get() that follows returns its
\* values; no step of a restore() creates or deletes a backup.
C7_RestoreDeterminism ==
  [][/\ RestoreStep => backups' = backups
     /\ (pc' = "idle" /\ last'.op = "restore" /\ last'.ret = "True" /\ loaded')
          => (last'.file \in DOMAIN snap' /\ db' = snap'[last'.file])
     /\ (pc = "idle" /\ last.op = "restore" /\ last.ret = "True" /\ loaded
           /\ last'.op = "all")
          => (last'.ret = "list" /\ last'.keys = DOMAIN snap[last.file])
     /\ (pc = "idle" /\ last.op = "restore" /\ last.ret = "True" /\ loaded
           /\ last'.op = "get")
          => last'.ret = DictGet(snap[last.file], Str(last'.key))
     /\ (loaded /\ pc = "idle" /\ pc' = "idle" /\ last'.op = "restore"
           /\ last'.ret = "False" /\ last' # last)
          => last'.file \notin DOMAIN backups]_vars

\* C7 witness: restore() has brought back the map of a backup that is older
\* than another backup holding a different map
C7_Witness ==
  /\ pc = "idle" /\ loaded
  /\ last.op = "restore" /\ last.ret = "True"
  /\ last.file \in DOMAIN snap /\ db = snap[last.file]
  /\ \E g \in DOMAIN snap : g > last.file /\ snap[g] # snap[last.file]

\* C8: restore() returns True only if the save() it ran returned True and
\* the storage file now holds the restored map; for a backup that is absent
\* or does not decode it returns False.
C8_RestoreFaithful ==
  (alive /\ pc = "idle" /\ last.op = "restore")
    => /\ last.ret = "True"
            => (last.inner = "True" /\ primary = Encode(encryption, key, db).bytes)
       /\ (\/ last.file \notin DOMAIN backups
           \/ ~Decode(encryption, key, backups[last.file]).ok)
            => last.ret = "False"

MapOps == {"set", "remove", "purge", "set_many", "remove_many"}

\* C9: a store constructed in the security mode and with the key of the last
\* save() that replaced the storage file starts usable with the map that
\* save() wrote (a store constructed before any such save() starts usable
\* and empty); set, remove, purge, set_many and remove_many leave the
\* storage file alone.
C9_NoImplicitFlush ==
  [][/\ (~alive /\ alive')
          => /\ committed.mode = "none" => (loaded' /\ db' = EmptyDict)
             /\ (committed.mode = Mode(encryption')
                   /\ (encryption' => key' = committed.key))
                  => (loaded' /\ db' = committed.map)
     /\ (alive /\ alive' /\ pc = "idle" /\ pc' = "idle" /\ last'.op \in MapOps)
          => primary' = primary]_vars

\* C9 witness: a store has just been constructed over a committed map that
\* is not empty, after a process was killed or exited with another map
C9_Witness ==
  /\ last.op = "init" /\ last.ret = "ok"
  /\ alive /\ loaded
  /\ committed.mode # "none"
  /\ db = committed.map /\ db # EmptyDict

\* C10: on a usable store set(k, v) returns True, puts v under str(k) and
\* changes no other entry, so that str(k) is among the keys all() lists; a
\* get(k) that follows returns v, and not the value that stands for "absent".
C10_SetGet ==
  [][/\ (alive /\ loaded /\ pc = "idle" /\ pc' = "idle" /\ last'.op = "set")
          => /\ last'.ret = "True"
             /\ Str(last'.key) \in DOMAIN db'
             /\ db'[Str(last'.key)] = last'.val
             /\ \A x \in ((DOMAIN db) \cup (DOMAIN db')) \ {Str(last'.key)} :
                  x \in DOMAIN db /\ x \in DOMAIN db' /\ db'[x] = db[x]
     /\ (alive /\ loaded /\ last.op = "set" /\ last'.op = "get"
           /\ last'.key = last.key)
          => (last'.ret = last.val /\ ~Absent(last'.ret))]_vars

\* a call that is one step, made on a usable store, returns with this step
Returns(op) ==
  /\ alive /\ loaded /\ pc = "idle" /\ pc' = "idle"
  /\ last'.op = op

\* C11: on a usable store remove(k) of a key whose str(k) is in the map
\* returns True, deletes that entry and changes no other; remove(k) of a key
\* whose str(k) is not in the map returns False and leaves the map as it
\* was.  So a remove(k) right after set(k, v) returns True, and the get(k)
\* right after it returns the value that stands for "absent".
C11_RemoveAfterSet ==
  [][/\ Returns("remove")
          => IF Str(last'.key) \in DOMAIN db
               THEN /\ last'.ret = "True"
                    /\ DOMAIN db' = (DOMAIN db) \ {Str(last'.key)}
                    /\ \A x \in DOMAIN db' : db'[x] = db[x]
               ELSE /\ last'.ret = "False"
                    /\ db' = db
     /\ (Returns("remove") /\ last.op = "set" /\ last.ret = "True"
           /\ last'.key = last.key)
          => last'.ret = "True"
     /\ (Returns("get") /\ last.op = "remove" /\ last.ret = "True"
           /\ last'.key = last.key)
          => Absent(last'.ret)]_vars

\* C11 witness: remove(1), given the integer 1, has deleted the entry "1"
\* and left another entry in the map
C11_Witness ==
  /\ alive /\ loaded
  /\ last.op = "remove" /\ last.key = "#1" /\ last.ret = "True"
  /\ "1" \notin DOMAIN db
  /\ db # EmptyDict

GatedReads ==
  {"get", "all", "search_by_key", "search_by_value", "filter", "fuzzy_search"}

GatedWrites == {"set", "remove", "purge", "set_many", "remove_many", "save"}

Min(a, b) == IF a < b THEN a ELSE b

\* the m names of a directory that sort last
LastNames(names, m) == {b \in names : Cardinality({x \in names : x > b}) < m}

\* C13: cleanup_backups(limit), for every limit >= 0 and a directory of n
\* backups, leaves exactly min(n, limit) backups, the min(n, limit) that
\* sort last by name, each with the contents it had.
C13_CleanupKeepsLast ==
  [][\A limit \in Limits :
       CleanupBackups(limit)
         => LET n == Cardinality(DOMAIN backups)
            IN  /\ Cardinality(DOMAIN backups') = Min(n, limit)
                /\ DOMAIN backups' = LastNames(DOMAIN backups, Min(n, limit))
                /\ \A b \in DOMAIN backups' : backups'[b] = backups[b]]_vars

\* the map after set(k, data[k]) for each key k of ks, in order
RECURSIVE SetEach(_, _, _)
SetEach(d, ks, data) ==
  IF ks = <<>> THEN d
  ELSE SetEach(DictSet(d, Str(Head(ks)), data[Head(ks)]), Tail(ks), data)

\* the map after remove(k) for each key k of ks, in order
RECURSIVE RemoveEach(_, _)
RemoveEach(d, ks) ==
  IF ks = <<>> THEN d ELSE RemoveEach(DictDel(d, Str(Head(ks))), Tail(ks))

\* C16: on a usable store set_many(data) leaves the map that set(k, v) for
\* each entry of data, in order, would leave, and remove_many(keys) the map
\* that remove(k) for each key, in order, would leave, keys that are not
\* strings included; so a map whose keys are all strings keeps only string
\* keys.
C16_BulkAsSingle ==
  [][/\ \A data \in Dicts(RawKeys) :
          (loaded /\ SetMany(data)) => db' = SetEach(db, Keys(data), data)
     /\ \A ks \in KeyLists(RawKeys) :
          (loaded /\ RemoveMany(ks)) => db' = RemoveEach(db, ks)
     /\ ((Returns("set_many") \/ Returns("remove_many"))
           /\ \A k \in DOMAIN db : IsStr(k))
          => \A k \in DOMAIN db' : IsStr(k)]_vars

\* the keys a step deleted from the map
Deleted == (DOMAIN db) \ (DOMAIN db')

\* a call that is one step returns with this step, on any store
Called(op) ==
  /\ alive /\ alive' /\ pc = "idle" /\ pc' = "idle"
  /\ last'.op = op
  /\ (last' # last \/ db' # db)

\* C17: each call hands its records to the log before it returns, so the log
\* holds them in call order; on a usable store a set logs exactly one SET,
\* a remove one REMOVE if it deleted a key and nothing if it did not, a
\* purge one PURGE, a set_many one SET_MANY for each entry given, and a
\* remove_many one REMOVE_MANY for each key it deleted; get and all log
\* nothing, and no call on a store that is not usable logs anything.
C17_AuditEvents ==
  [][/\ (Called("set") /\ loaded)
          => last'.events = <<Log("SET", Str(last'.key), last'.val)>>
     /\ (Called("remove") /\ loaded)
          => last'.events = (IF Deleted = {} THEN <<>>
                             ELSE <<Log("REMOVE", Str(last'.key), None)>>)
     /\ (Called("purge") /\ loaded)
          => last'.events = <<Log("PURGE", "ALL_KEYS", None)>>
     /\ \A data \in Dicts(RawKeys) :
          (loaded /\ SetMany(data))
            => /\ Len(last'.events) = Cardinality(DOMAIN data)
               /\ \A k \in DOMAIN data :
                    \E i \in 1..Len(last'.events) :
                      last'.events[i] = Log("SET_MANY", k, data[k])
     /\ (Called("remove_many") /\ loaded)
          => /\ Len(last'.events) = Cardinality(Deleted)
             /\ \A k \in Deleted :
                  \E i \in 1..Len(last'.events) :
                    /\ last'.events[i][1] = "REMOVE_MANY"
                    /\ Str(last'.events[i][2]) = k
     /\ (Called("get") \/ Called("all")) => last'.events = <<>>
     /\ (\E op \in MapOps : Called(op) /\ ~loaded) => last'.events = <<>>]_vars

\* the storage file is absent or has zero length
NewDatabase == primary.kind \in {"nofile", "empty"}

\* C18 as stated: in either security mode a construction that finds the
\* storage file absent or of zero length succeeds, with an empty map and
\* usable = true.
C18_Original ==
  [][\A m \in {"plain", "enc"} :
       (Constructing(m) /\ NewDatabase)
         => (last'.ret = "ok" /\ alive' /\ loaded' /\ db' = EmptyDict)]_vars

\* C18 amended: the same, unless encryption is enabled and a zero-length
\* storage file stands without its key file.
C18_NewDatabase ==
  [][\A m \in {"plain", "enc"} :
       (Constructing(m) /\ NewDatabase
          /\ ((m = "enc" /\ Exists(primary)) => keyFile # 0))
         => (last'.ret = "ok" /\ alive' /\ loaded' /\ db' = EmptyDict)]_vars

\* C18 witness: a store with encryption enabled has been constructed over a
\* zero-length storage file, its key file in place
C18_Witness ==
  /\ last.op = "init" /\ last.val = "enc" /\ last.ret = "ok"
  /\ primary.kind = "empty" /\ keyFile # 0
  /\ alive /\ loaded /\ db = EmptyDict

\* this step creates a backup file or writes into one
BackupWritten ==
  \E n \in DOMAIN backups' : n \notin DOMAIN backups \/ backups'[n] # backups[n]

\* C19: a backup file is created or written only inside a save() that was
\* asked for a backup, after that save() has replaced the storage file with
\* the encoding of the map; and when a save(backup=True) returns True, the
\* backup it wrote decodes to the map it committed to the storage file.
C19_BackupAfterCommit ==
  [][/\ BackupWritten
          => /\ pc \in {"backup", "backup_opened"}
             /\ frame.caller = "save" /\ frame.backup
             /\ committed.map = db
             /\ primary = Encode(encryption, key, db).bytes
     /\ (pc = "backup_done" /\ pc' = "idle" /\ last'.op = "save"
           /\ last'.ret = "True" /\ frame.file \in DOMAIN backups')
          => LET dec == Decode(encryption, key, backups'[frame.file])
             IN  dec.ok /\ dec.map = committed.map]_vars

\* C20: self.loaded is decided by the load at construction; as long as the
\* store object lives, no call (set, get, remove, purge, the bulk calls, the
\* searches, save with or without backup, cleanup_backups, restore), whether
\* it succeeds or fails, changes it.
C20_GateFixed ==
  [][(alive /\ alive') => loaded' = loaded]_vars

\* C20 witness: restore() has succeeded on a store that is not usable, and
\* the store is still not usable
C20_Witness ==
  /\ alive /\ ~loaded /\ pc = "idle"
  /\ last.op = "restore" /\ last.ret = "True"
  /\ db # EmptyDict

\* C14: POST /set answers "Data saved" only if set() and save() succeeded,
\* DELETE /delete answers "Key deleted" only if remove() deleted the key and
\* the save() after it succeeded, and GET /get answers 404 exactly when the
\* key is not in the map.
C14_FacadeReportsFailure ==
  [][/\ (last'.op = "set_item" /\ last'.ret = "Data saved")
          => last'.inner = "True"
     /\ (last'.op = "delete_item" /\ last'.ret = "Key deleted")
          => last'.inner = "True"
     /\ (alive /\ last'.op = "get_item" /\ last' # last)
          => (last'.ret = "404" <=> Str(last'.key) \notin DOMAIN db)]_vars

\* worker t's handler returns with this step
Responds(t) ==
  /\ alive' /\ workers[t].pc # "idle" /\ workers'[t].pc = "idle"

\* C15: two save() calls inside one another race on the temporary file: a
\* worker writes its bytes into the file that goes by the name of the
\* storage file, or finds no temporary file to rename and gets False from
\* save(), only when another request was served alongside its own; a
\* request served alone on a usable store gets True from save() and leaves
\* the storage file the complete encoding of the map.
C15_TmpRace ==
  [][\A t \in Threads :
       /\ workers'[t].wrote = "primary" => ~workers'[t].alone
       /\ (Responds(t) /\ last'.stage = "replace") => ~workers[t].alone
       /\ (Responds(t) /\ loaded /\ workers[t].alone)
            => /\ last'.inner = "True"
               /\ primary' = Encode(encryption, key, db').bytes
               /\ tmp' = NoFile]_vars

\* C15 witness: of two overlapping POST /set, one has written its bytes into
\* the file the other had renamed, which leaves the storage file with no
\* complete encoding in it, and has then failed in its own rename
C15_Witness ==
  /\ alive /\ loaded
  /\ last.op = "set_item" /\ last.stage = "replace" /\ last.inner = "False"
  /\ primary.kind = "junk"
  /\ \A t \in Threads : workers[t].wrote # "tmp"
====
